---- MODULE Spec2Model ----
(***************************************************************************)
(* A model of the UK rental tax assistant: the transaction ledger with its *)
(* deduplicating import and manual entry (TransactionManager), the receipt *)
(* hub with its invoice-to-transaction matching (InvoiceManager), and the  *)
(* tax estimate (TaxEstimator, Dashboard).                                 *)
(*                                                                         *)
(* Representation.  Money is an integer number of pence.  A string is a    *)
(* sequence of one-character strings, so that the prefix taken by          *)
(* btoa(..).slice(0, 16) and the lexicographic comparison of dates are     *)
(* computed and not assumed.  A React state update written as              *)
(* setX(prev => f(prev)) is applied to the state as it is when the handler *)
(* runs; a value a handler reads from its render closure (transactions,    *)
(* expenseTransactions, properties) is the value of the render in which    *)
(* the handler was started, which an asynchronous handler keeps across its *)
(* awaits.                                                                 *)
(***************************************************************************)
EXTENDS Integers, Sequences, FiniteSets, TLC

VARIABLES
    transactions,   \* App state: Transaction[]
    invoices,       \* App state: Invoice[]
    properties,     \* App state: Property[] (the ids)
    taxYear,        \* App state: the selected period (its start year)
    selectedIds,    \* TransactionManager state: Set<string>
    deleteTarget,   \* TransactionManager state: 'bulk' | id | null
    isProcessing,   \* TransactionManager state
    imports,        \* processImportedData calls in flight
    uploads,        \* processFile calls in flight
    otherIncome,    \* TaxEstimator state (pence)
    activeTab,      \* App state: the component that is mounted
    budget,         \* how many uploads were started, how many invoices made
    last            \* the operation that produced this state

vars == <<transactions, invoices, properties, taxYear, selectedIds, deleteTarget,
          isProcessing, imports, uploads, otherIncome, activeTab, budget, last>>

----------------------------------------------------------------------------
(* Bounds of the model *)

MaxTx == 2          \* transactions stored or being imported
MaxImports == 2     \* bank-statement batches in flight at a time
MaxUploads == 2     \* receipt uploads started in one behaviour
MaxProperties == 2  \* properties in the property list
MaxClassifyRows == 2    \* rows stored or being imported, classification spec
MaxClassifyImports == 1 \* batches in flight at a time, classification spec
MaxBulkTx == 3      \* ledger size in the bulk-operation specification
MaxTaxTx == 3       \* ledger size in the tax-estimate specification

----------------------------------------------------------------------------
(* Strings *)

Digits == <<"0", "1", "2", "3", "4", "5", "6", "7", "8", "9">>

\* The characters the model's strings are made of, in code-unit order.
Alphabet == <<"-", ".", "/", "0", "1", "2", "3", "4", "5", "6", "7", "8", "9",
              "B", "C", "G", "P", "T", "a", "l", "m", "n", "u">>

CharCode(c) == CHOOSE i \in 1..Len(Alphabet) : Alphabet[i] = c

Min(a, b) == IF a <= b THEN a ELSE b
Max(a, b) == IF a >= b THEN a ELSE b
Abs(x) == IF x < 0 THEN -x ELSE x

\* a < b for strings, as JavaScript's < on strings (code-unit order)
StrLess(a, b) ==
    \E k \in 1..(Min(Len(a), Len(b)) + 1) :
        /\ \A j \in 1..(k - 1) : a[j] = b[j]
        /\ \/ k = Len(a) + 1 /\ k <= Len(b)
           \/ k <= Len(a) /\ k <= Len(b) /\ CharCode(a[k]) < CharCode(b[k])

StrLeq(a, b) == a = b \/ StrLess(a, b)

RECURSIVE NatStr(_)
NatStr(n) == IF n < 10 THEN <<Digits[n + 1]>>
             ELSE NatStr(n \div 10) \o <<Digits[(n % 10) + 1]>>

Pad2(n) == <<Digits[(n \div 10) + 1], Digits[(n % 10) + 1]>>

\* `${amount}` for an amount of p pence: -4505 is "-45.05", 4500 is "45"
NumStr(p) ==
    LET a == Abs(p)
        frac == a % 100
    IN  (IF p < 0 THEN <<"-">> ELSE <<>>)
        \o NatStr(a \div 100)
        \o (IF frac = 0 THEN <<>>
            ELSE IF frac % 10 = 0 THEN <<".", Digits[(frac \div 10) + 1]>>
            ELSE <<".">> \o Pad2(frac))

\* a calendar date in the canonical form YYYY-MM-DD
DateStr(y, m, d) == NatStr(y) \o <<"-">> \o Pad2(m) \o <<"-">> \o Pad2(d)

\* btoa(s).slice(0, 16): sixteen base64 characters encode exactly the first
\* twelve bytes of s, and base64 is one-to-one on them, so the result is
\* represented by those bytes.
Btoa16(s) == SubSeq(s, 1, Min(12, Len(s)))

----------------------------------------------------------------------------
(* Dates *)

IsDigit(c) == \E i \in 1..10 : Digits[i] = c
DigitVal(c) == (CHOOSE i \in 1..10 : Digits[i] = c) - 1

IsLeap(y) == (y % 4 = 0 /\ y % 100 # 0) \/ y % 400 = 0

DaysInMonth(y, m) ==
    IF m = 2 THEN (IF IsLeap(y) THEN 29 ELSE 28)
    ELSE IF m \in {4, 6, 9, 11} THEN 30 ELSE 31

RECURSIVE DaysBeforeMonth(_, _)
DaysBeforeMonth(y, m) ==
    IF m = 1 THEN 0 ELSE DaysBeforeMonth(y, m - 1) + DaysInMonth(y, m - 1)

RECURSIVE DaysBeforeYear(_)
DaysBeforeYear(y) ==
    IF y <= 2020 THEN 0
    ELSE DaysBeforeYear(y - 1) + (IF IsLeap(y - 1) THEN 366 ELSE 365)

\* new Date(s).getTime() in days (a canonical date is midnight UTC, so the
\* time is a whole number of days, counted here from 2020-01-01); a string
\* that is no canonical date of 2020 or later gives NaN.
DateGetTime(s) ==
    IF /\ Len(s) = 10
       /\ s[5] = "-" /\ s[8] = "-"
       /\ \A i \in {1, 2, 3, 4, 6, 7, 9, 10} : IsDigit(s[i])
    THEN LET y == 1000 * DigitVal(s[1]) + 100 * DigitVal(s[2])
                  + 10 * DigitVal(s[3]) + DigitVal(s[4])
             m == 10 * DigitVal(s[6]) + DigitVal(s[7])
             d == 10 * DigitVal(s[9]) + DigitVal(s[10])
         IN  IF y >= 2020 /\ m \in 1..12 /\ d \in 1..DaysInMonth(y, m)
             THEN [nan |-> FALSE,
                   days |-> DaysBeforeYear(y) + DaysBeforeMonth(y, m) + d - 1]
             ELSE [nan |-> TRUE, days |-> 0]
    ELSE [nan |-> TRUE, days |-> 0]

TAX_YEARS == {2023, 2024, 2025, 2026}

getTaxYearDates(year) ==
    [start |-> DateStr(year, 4, 6), end |-> DateStr(year + 1, 4, 5)]

\* the period with its last day left out
isDateInTaxYearEndExcluded(dateStr, year) ==
    /\ StrLeq(getTaxYearDates(year).start, dateStr)
    /\ StrLess(dateStr, getTaxYearDates(year).end)

isDateInTaxYear(dateStr, year) ==
    /\ StrLeq(getTaxYearDates(year).start, dateStr)
    /\ StrLeq(dateStr, getTaxYearDates(year).end)

----------------------------------------------------------------------------
(* Domain model *)

HMRCCategory == {"RENTAL_INC_001", "REPAIRS_101", "MGMT_201", "INSUR_301",
                 "UTIL_401", "COUNCIL_501", "ADVERT_501", "PROF_601",
                 "MORT_INT_701", "TRAVEL_801", "MISC_901", "UNCATEGORIZED"}

\* JavaScript's undefined, where a string is expected
Undefined == "undefined"

\* The components read HMRCCategory.PERSONAL_000.  The enum has no such
\* member, so the property read gives undefined.
HMRCCategory_PERSONAL_000 == Undefined

\* an absent invoice id (invoice ids are the numbers 1, 2, ...)
NoInvoice == 0
\* an absent transaction id (a transaction id is a non-empty string)
NoTransaction == <<>>

RECURSIVE SumAmounts(_)
SumAmounts(ts) == IF ts = <<>> THEN 0 ELSE Head(ts).amount + SumAmounts(Tail(ts))

RECURSIVE SumAbsAmounts(_)
SumAbsAmounts(ts) ==
    IF ts = <<>> THEN 0 ELSE Abs(Head(ts).amount) + SumAbsAmounts(Tail(ts))

\* Array.prototype.filter
Filter(ts, Keep(_)) == SelectSeq(ts, Keep)

Ids(ts) == {ts[i].id : i \in 1..Len(ts)}

----------------------------------------------------------------------------
(* TaxEstimator.estimate and Dashboard.stats *)

\* Amounts of the estimate are pence.  The allowance taper halves an amount
\* and the rates are 20%, 40% and 45%, so the allowance and the taxable
\* income are kept in half-pence (fields ...X2) and every tax figure in
\* fortieths of a penny (fields ...X40): all of them exact.
BaseAllowance == 12570 * 100
TaperThreshold == 100000 * 100
basicBand == 37700 * 100
higherBand == (125140 - 50270) * 100

\* the taper applied only to incomes inside the taper range
allowanceOnlyInTaperRangeX2(totalIncome) ==
    IF totalIncome > TaperThreshold /\ totalIncome <= 12514000
    THEN Max(0, 2 * BaseAllowance - (totalIncome - TaperThreshold))
    ELSE 2 * BaseAllowance

\* no allowance at all
allowanceNoneX2(totalIncome) == 0

\* the taper without its floor
allowanceUnflooredX2(totalIncome) ==
    IF totalIncome > TaperThreshold
    THEN 2 * BaseAllowance - (totalIncome - TaperThreshold)
    ELSE 2 * BaseAllowance

allowanceX2(totalIncome) ==
    IF totalIncome > TaperThreshold
    THEN Max(0, 2 * BaseAllowance - (totalIncome - TaperThreshold))
    ELSE 2 * BaseAllowance

\* the three band amounts of a taxable income, in half-pence
amountInBasicX2(taxableIncomeX2) == Min(taxableIncomeX2, 2 * basicBand)

\* the higher band taking all that the basic band left
amountInHigherUncappedX2(taxableIncomeX2) ==
    LET remainingTaxable == taxableIncomeX2 - amountInBasicX2(taxableIncomeX2)
    IN  IF remainingTaxable > 0 THEN remainingTaxable ELSE 0

amountInHigherX2(taxableIncomeX2) ==
    LET remainingTaxable == taxableIncomeX2 - amountInBasicX2(taxableIncomeX2)
    IN  IF remainingTaxable > 0 THEN Min(remainingTaxable, 2 * higherBand) ELSE 0

amountInAdditionalX2(taxableIncomeX2) ==
    LET remainingTaxable == taxableIncomeX2 - amountInBasicX2(taxableIncomeX2)
                            - amountInHigherX2(taxableIncomeX2)
    IN  IF remainingTaxable > 0 THEN remainingTaxable ELSE 0

\* 20% of the finance costs, without the cap
financeCostReliefUncappedX40(financeCosts, taxBeforeReliefX40) == financeCosts * 8

\* 20% of the finance costs, capped by the tax before relief
financeCostReliefX40(financeCosts, taxBeforeReliefX40) ==
    Min(financeCosts * 8, taxBeforeReliefX40)

\* the finance costs deducted from the profit like any other expense
estimateDeductingFinanceCosts(txs, year, other) ==
    LET InYear(t) == isDateInTaxYear(t.date, year)
        yearTransactions == Filter(txs, InYear)
        IsIncome(t) == t.amount > 0
        IsFinance(t) == t.category = "MORT_INT_701"
        IsOther(t) == t.amount < 0 /\ t.category # "MORT_INT_701"
        rentalIncome == SumAmounts(Filter(yearTransactions, IsIncome))
        financeCosts == SumAbsAmounts(Filter(yearTransactions, IsFinance))
        otherExpenses == SumAbsAmounts(Filter(yearTransactions, IsOther))
        taxableProfit == Max(0, rentalIncome - otherExpenses - financeCosts)
        netCashFlow == rentalIncome - otherExpenses - financeCosts
        totalIncome == taxableProfit + other
        allowance == allowanceX2(totalIncome)
        taxableIncome == Max(0, 2 * totalIncome - allowance)
        basicTax == amountInBasicX2(taxableIncome) * 4
        higherTax == amountInHigherX2(taxableIncome) * 8
        additionalTax == amountInAdditionalX2(taxableIncome) * 9
        taxBeforeRelief == basicTax + higherTax + additionalTax
        financeCostRelief == financeCostReliefX40(financeCosts, taxBeforeRelief)
    IN  [rentalIncome |-> rentalIncome,
         otherExpenses |-> otherExpenses,
         financeCosts |-> financeCosts,
         netCashFlow |-> netCashFlow,
         taxableProfit |-> taxableProfit,
         estimatedTaxBeforeReliefX40 |-> taxBeforeRelief,
         financeCostReliefX40 |-> financeCostRelief,
         finalEstimatedTaxX40 |-> Max(0, taxBeforeRelief - financeCostRelief),
         allowanceX2 |-> allowance,
         totalIncome |-> totalIncome,
         taxableIncomeX2 |-> taxableIncome,
         breakdown |-> [basicTaxX40 |-> basicTax, higherTaxX40 |-> higherTax,
                        additionalTaxX40 |-> additionalTax]]

estimate(txs, year, other) ==
    LET InYear(t) == isDateInTaxYear(t.date, year)
        yearTransactions == Filter(txs, InYear)
        IsIncome(t) == t.amount > 0
        IsFinance(t) == t.category = "MORT_INT_701"
        IsOther(t) == t.amount < 0 /\ t.category # "MORT_INT_701"
        rentalIncome == SumAmounts(Filter(yearTransactions, IsIncome))
        financeCosts == SumAbsAmounts(Filter(yearTransactions, IsFinance))
        otherExpenses == SumAbsAmounts(Filter(yearTransactions, IsOther))
        taxableProfit == Max(0, rentalIncome - otherExpenses)
        netCashFlow == rentalIncome - otherExpenses - financeCosts
        totalIncome == taxableProfit + other
        allowance == allowanceX2(totalIncome)
        taxableIncome == Max(0, 2 * totalIncome - allowance)
        basicTax == amountInBasicX2(taxableIncome) * 4
        higherTax == amountInHigherX2(taxableIncome) * 8
        additionalTax == amountInAdditionalX2(taxableIncome) * 9
        taxBeforeRelief == basicTax + higherTax + additionalTax
        financeCostRelief == financeCostReliefX40(financeCosts, taxBeforeRelief)
    IN  [rentalIncome |-> rentalIncome,
         otherExpenses |-> otherExpenses,
         financeCosts |-> financeCosts,
         netCashFlow |-> netCashFlow,
         taxableProfit |-> taxableProfit,
         estimatedTaxBeforeReliefX40 |-> taxBeforeRelief,
         financeCostReliefX40 |-> financeCostRelief,
         finalEstimatedTaxX40 |-> Max(0, taxBeforeRelief - financeCostRelief),
         allowanceX2 |-> allowance,
         totalIncome |-> totalIncome,
         taxableIncomeX2 |-> taxableIncome,
         breakdown |-> [basicTaxX40 |-> basicTax, higherTaxX40 |-> higherTax,
                        additionalTaxX40 |-> additionalTax]]

isDeductibleExpense(t) ==
    t.amount < 0 /\ t.category # HMRCCategory_PERSONAL_000

stats(txs, year) ==
    LET InYear(t) == isDateInTaxYear(t.date, year)
        filteredTransactions == Filter(txs, InYear)
        IsIncome(t) == t.amount > 0
        income == SumAmounts(Filter(filteredTransactions, IsIncome))
        expenses == SumAbsAmounts(Filter(filteredTransactions, isDeductibleExpense))
    IN  [income |-> income, expenses |-> expenses, profit |-> income - expenses]

----------------------------------------------------------------------------
(* TransactionManager: import and manual entry *)

Dash == <<"-">>

\* btoa(`${item.date}-${item.description}-${item.amount}`).slice(0, 16)
importId(item) ==
    Btoa16(item.date \o Dash \o item.description \o Dash \o NumStr(item.amount))

\* btoa(`manual-${manualDate}-${manualDesc}-${amount}-${Date.now()}`).slice(0, 16)
manualId(manualDate, manualDesc, amount, now) ==
    Btoa16(<<"m", "a", "n", "u", "a", "l">> \o Dash \o manualDate \o Dash
           \o manualDesc \o Dash \o NumStr(amount) \o Dash \o NatStr(now))

\* What a classifier call gives is a record resp: kind "error" when
\* generateContent throws, kind "text" when the answer holds no JSON, kind
\* "json" when it holds a JSON object, whose fields are then category,
\* propertyId and confidence.  A confidence is a number of hundredths; an
\* absent field reads Undefined, an absent confidence 0 (`||` treats
\* undefined and 0 alike).
NoResp == [kind |-> "none", category |-> Undefined, propertyId |-> Undefined,
           confidence |-> 0]

\* robustJsonParse: the object of the text, {} when JSON.parse throws
robustJsonParse(resp) ==
    IF resp.kind = "json"
    THEN [category |-> resp.category, propertyId |-> resp.propertyId,
          confidence |-> resp.confidence]
    ELSE [category |-> Undefined, propertyId |-> Undefined, confidence |-> 0]

categorizeTransaction(resp) ==
    IF resp.kind = "error"
    THEN [category |-> "UNCATEGORIZED", propertyId |-> Undefined, confidence |-> 0]
    ELSE LET parsed == robustJsonParse(resp)
         IN  [category |-> IF parsed.category \notin {Undefined, ""}
                           THEN parsed.category ELSE "UNCATEGORIZED",
              propertyId |-> IF parsed.propertyId \notin {Undefined, ""}
                             THEN parsed.propertyId ELSE Undefined,
              confidence |-> IF parsed.confidence # 0 THEN parsed.confidence
                             ELSE 50]

InSeq(x, seq) == \E i \in 1..Len(seq) : seq[i] = x

\* the id the classifier gave taken without the look-up in the list
assignedPropertyIdUnchecked(aiResult, props) ==
    IF aiResult.propertyId # Undefined
    THEN aiResult.propertyId
    ELSE IF Len(props) > 0 THEN props[1] ELSE ""

assignedPropertyId(aiResult, props) ==
    IF aiResult.propertyId # Undefined /\ InSeq(aiResult.propertyId, props)
    THEN aiResult.propertyId
    ELSE IF Len(props) > 0 THEN props[1] ELSE ""

importedTransaction(item, aiResult, props) ==
    [id |-> importId(item), date |-> item.date, description |-> item.description,
     amount |-> item.amount, propertyId |-> assignedPropertyId(aiResult, props),
     category |-> aiResult.category, status |-> "pending", source |-> "bank_upload",
     matchedInvoiceId |-> NoInvoice, tag |-> Undefined]

NoTx == [id |-> NoTransaction, date |-> <<>>, description |-> <<>>, amount |-> 0,
         propertyId |-> "", category |-> "UNCATEGORIZED", status |-> "pending",
         source |-> "bank_upload", matchedInvoiceId |-> NoInvoice, tag |-> Undefined]

RemoveAt(seq, k) == SubSeq(seq, 1, k - 1) \o SubSeq(seq, k + 1, Len(seq))

CountWhere(seq, P(_)) == Len(SelectSeq(seq, P))

Op(name) == [op |-> name]

\* deleteTarget: null, 'bulk' or the id of a transaction
NoTarget == [kind |-> "null", id |-> NoTransaction]
BulkTarget == [kind |-> "bulk", id |-> NoTransaction]
IdTarget(id) == [kind |-> "id", id |-> id]

\* No modal dialog is open: the delete modal covers the whole window.
UserFree == deleteTarget = NoTarget

\* handleFile with a statement parseBankStatement made rows of, up to the
\* dispatch of the classification calls in processImportedData.  existingIds
\* is made of the transactions of the render the file was dropped in.
processImportedData_start(dataItems) ==
    /\ activeTab = "transactions" /\ UserFree
    /\ LET existingIds == Ids(transactions)
           row(i) == IF importId(dataItems[i]) \in existingIds
                     THEN [st |-> "skipped", tx |-> NoTx, resp |-> NoResp]
                     ELSE [st |-> "pending", tx |-> NoTx, resp |-> NoResp]
           IsSkipped(r) == r.st = "skipped"
           results == [i \in 1..Len(dataItems) |-> row(i)]
       IN  imports' = Append(imports,
                [existingIds |-> existingIds, properties |-> properties,
                 dataItems |-> dataItems, results |-> results, addedCount |-> 0,
                 skippedCount |-> CountWhere(results, IsSkipped), mounted |-> TRUE])
    /\ isProcessing' = TRUE
    /\ last' = Op("handleFile")
    /\ UNCHANGED <<transactions, invoices, properties, taxYear, selectedIds,
                   deleteTarget, uploads, otherIncome, activeTab>>

\* handleFile with a statement that gave no rows, or that failed to parse
handleFile_noRows ==
    /\ activeTab = "transactions" /\ UserFree
    /\ isProcessing' = FALSE
    /\ last' = Op("handleFileNoRows")
    /\ UNCHANGED <<transactions, invoices, properties, taxYear, selectedIds,
                   deleteTarget, imports, uploads, otherIncome, activeTab, budget>>

\* the map callback writing its row to the ledger as soon as its own call
\* resolves
processImportedData_classifiedInPlace(k, i, resp) ==
    /\ k \in 1..Len(imports)
    /\ i \in 1..Len(imports[k].results)
    /\ imports[k].results[i].st = "pending"
    /\ LET b == imports[k]
           aiResult == categorizeTransaction(resp)
           tx == importedTransaction(b.dataItems[i], aiResult, b.properties)
       IN  /\ imports' = [imports EXCEPT
                ![k].results[i] = [st |-> "skipped", tx |-> tx, resp |-> resp],
                ![k].addedCount = b.addedCount + 1]
           /\ transactions' = Append(transactions, tx)
    /\ last' = Op("classified")
    /\ UNCHANGED <<invoices, properties, taxYear, selectedIds,
                   deleteTarget, isProcessing, uploads, otherIncome, activeTab, budget>>

\* one classification call of batch k resolves: the rest of the map callback
processImportedData_classified(k, i, resp) ==
    /\ k \in 1..Len(imports)
    /\ i \in 1..Len(imports[k].results)
    /\ imports[k].results[i].st = "pending"
    /\ LET b == imports[k]
           aiResult == categorizeTransaction(resp)
           tx == importedTransaction(b.dataItems[i], aiResult, b.properties)
       IN  imports' = [imports EXCEPT
                ![k].results[i] = [st |-> "done", tx |-> tx, resp |-> resp],
                ![k].addedCount = b.addedCount + 1]
    /\ last' = Op("classified")
    /\ UNCHANGED <<transactions, invoices, properties, taxYear, selectedIds,
                   deleteTarget, isProcessing, uploads, otherIncome, activeTab, budget>>

\* Promise.all rejecting on a failed call: the batch is given up, nothing
\* is appended and the spinner stays
processImportedData_applyOrAbort(k) ==
    /\ k \in 1..Len(imports)
    /\ \A i \in 1..Len(imports[k].results) : imports[k].results[i].st # "pending"
    /\ LET b == imports[k]
           IsDone(r) == r.st = "done"
           Failed(r) == r.resp.kind = "error"
           done == SelectSeq(b.results, IsDone)
           results == [i \in 1..Len(done) |-> done[i].tx]
           aborted == SelectSeq(b.results, Failed) # <<>>
       IN  /\ transactions' = IF Len(results) > 0 /\ ~aborted
                              THEN transactions \o results
                              ELSE transactions
           /\ isProcessing' = IF b.mounted /\ ~aborted THEN FALSE ELSE isProcessing
           /\ last' = [op |-> "import", existingIds |-> b.existingIds]
    /\ imports' = RemoveAt(imports, k)
    /\ UNCHANGED <<invoices, properties, taxYear, selectedIds, deleteTarget,
                   uploads, otherIncome, activeTab, budget>>

\* Promise.all of batch k has resolved: the rows are appended, the counts
\* are reported in the toast
processImportedData_apply(k) ==
    /\ k \in 1..Len(imports)
    /\ \A i \in 1..Len(imports[k].results) : imports[k].results[i].st # "pending"
    /\ LET b == imports[k]
           IsDone(r) == r.st = "done"
           done == SelectSeq(b.results, IsDone)
           results == [i \in 1..Len(done) |-> done[i].tx]
       IN  /\ transactions' = IF Len(results) > 0 THEN transactions \o results
                              ELSE transactions
           /\ isProcessing' = IF b.mounted THEN FALSE ELSE isProcessing
           /\ last' = [op |-> "import", existingIds |-> b.existingIds]
    /\ imports' = RemoveAt(imports, k)
    /\ UNCHANGED <<invoices, properties, taxYear, selectedIds, deleteTarget,
                   uploads, otherIncome, activeTab, budget>>

handleManualAdd(manualDate, manualDesc, amount, manualPropId, manualCat, manualTag, now) ==
    /\ activeTab = "transactions" /\ UserFree
    /\ manualDesc # <<>>
    /\ transactions' = Append(transactions,
            [id |-> manualId(manualDate, manualDesc, amount, now),
             date |-> manualDate, description |-> manualDesc, amount |-> amount,
             propertyId |-> manualPropId, category |-> manualCat,
             status |-> "reconciled", source |-> "manual",
             matchedInvoiceId |-> NoInvoice, tag |-> manualTag])
    /\ last' = Op("handleManualAdd")
    /\ UNCHANGED <<invoices, properties, taxYear, selectedIds, deleteTarget,
                   isProcessing, imports, uploads, otherIncome, activeTab>>

\* the rows of the transaction table: the transactions of the selected period
visibleTransactions ==
    LET InYear(t) == isDateInTaxYear(t.date, taxYear)
    IN  Filter(transactions, InYear)

handleSelect(id) ==
    /\ activeTab = "transactions" /\ UserFree
    /\ id \in Ids(visibleTransactions)
    /\ selectedIds' = IF id \in selectedIds THEN selectedIds \ {id}
                      ELSE selectedIds \cup {id}
    /\ last' = Op("handleSelect")
    /\ UNCHANGED <<transactions, invoices, properties, taxYear, deleteTarget,
                   isProcessing, imports, uploads, otherIncome, activeTab, budget>>

\* the checkbox of the table head
handleSelectAll ==
    /\ activeTab = "transactions" /\ UserFree
    /\ selectedIds' = IF Cardinality(selectedIds) = Len(visibleTransactions)
                      THEN {}
                      ELSE Ids(visibleTransactions)
    /\ last' = Op("handleSelectAll")
    /\ UNCHANGED <<transactions, invoices, properties, taxYear, deleteTarget,
                   isProcessing, imports, uploads, otherIncome, activeTab, budget>>

\* a tagging that reaches only one of the selected ids
bulkApplyTagFirstOnly(tag) ==
    /\ activeTab = "transactions" /\ UserFree
    /\ selectedIds # {}
    /\ LET first == CHOOSE id \in selectedIds : TRUE
       IN  transactions' = [i \in 1..Len(transactions) |->
                IF transactions[i].id = first
                THEN [transactions[i] EXCEPT !.tag = tag]
                ELSE transactions[i]]
    /\ selectedIds' = {}
    /\ last' = [op |-> "bulkApplyTag", ids |-> selectedIds, tag |-> tag]
    /\ UNCHANGED <<invoices, properties, taxYear, deleteTarget, isProcessing,
                   imports, uploads, otherIncome, activeTab, budget>>

\* Tag D, Tag J and Clear Tags of the selection bar, which shows when
\* something is selected
bulkApplyTag(tag) ==
    /\ activeTab = "transactions" /\ UserFree
    /\ selectedIds # {}
    /\ transactions' = [i \in 1..Len(transactions) |->
            IF transactions[i].id \in selectedIds
            THEN [transactions[i] EXCEPT !.tag = tag]
            ELSE transactions[i]]
    /\ selectedIds' = {}
    /\ last' = [op |-> "bulkApplyTag", ids |-> selectedIds, tag |-> tag]
    /\ UNCHANGED <<invoices, properties, taxYear, deleteTarget, isProcessing,
                   imports, uploads, otherIncome, activeTab, budget>>

\* the bin of a row (target is the row's id) or of the selection bar ("bulk")
setDeleteTarget(target) ==
    /\ activeTab = "transactions" /\ UserFree
    /\ \/ target = BulkTarget /\ selectedIds # {}
       \/ target.kind = "id" /\ target.id \in Ids(visibleTransactions)
    /\ deleteTarget' = target
    /\ last' = Op("setDeleteTarget")
    /\ UNCHANGED <<transactions, invoices, properties, taxYear, selectedIds,
                   isProcessing, imports, uploads, otherIncome, activeTab, budget>>

\* Cancel in the delete modal
cancelDelete ==
    /\ activeTab = "transactions" /\ deleteTarget # NoTarget
    /\ deleteTarget' = NoTarget
    /\ last' = Op("cancelDelete")
    /\ UNCHANGED <<transactions, invoices, properties, taxYear, selectedIds,
                   isProcessing, imports, uploads, otherIncome, activeTab, budget>>

\* Delete in the delete modal
executeDelete ==
    /\ activeTab = "transactions" /\ deleteTarget # NoTarget
    /\ IF deleteTarget.kind = "bulk"
       THEN LET Kept(t) == t.id \notin selectedIds
            IN  /\ transactions' = Filter(transactions, Kept)
                /\ selectedIds' = {}
                /\ last' = Op("executeDeleteBulk")
       ELSE LET Kept(t) == t.id # deleteTarget.id
            IN  /\ transactions' = Filter(transactions, Kept)
                /\ selectedIds' = selectedIds \ {deleteTarget.id}
                /\ last' = Op("executeDelete")
    /\ deleteTarget' = NoTarget
    /\ UNCHANGED <<invoices, properties, taxYear, isProcessing, imports, uploads,
                   otherIncome, activeTab, budget>>

updateCategory(id, newCategory) ==
    /\ activeTab = "transactions" /\ UserFree
    /\ id \in Ids(visibleTransactions)
    /\ transactions' = [i \in 1..Len(transactions) |->
            IF transactions[i].id = id
            THEN [transactions[i] EXCEPT !.category = newCategory]
            ELSE transactions[i]]
    /\ last' = Op("updateCategory")
    /\ UNCHANGED <<invoices, properties, taxYear, selectedIds, deleteTarget,
                   isProcessing, imports, uploads, otherIncome, activeTab, budget>>

----------------------------------------------------------------------------
(* InvoiceManager *)

\* Array.prototype.sort with (a, b) => new Date(b.date) - new Date(a.date):
\* a stable sort, latest date first; a comparison with NaN orders nothing.
Before(a, b) ==
    LET ta == DateGetTime(a.date)
        tb == DateGetTime(b.date)
    IN  ~ta.nan /\ ~tb.nan /\ tb.days - ta.days < 0

RECURSIVE InsertSorted(_, _)
InsertSorted(t, sorted) ==
    IF sorted = <<>> THEN <<t>>
    ELSE IF Before(t, Head(sorted)) THEN <<t>> \o sorted
    ELSE <<Head(sorted)>> \o InsertSorted(t, Tail(sorted))

RECURSIVE SortByDateDesc(_)
SortByDateDesc(ts) ==
    IF ts = <<>> THEN <<>>
    ELSE InsertSorted(ts[Len(ts)], SortByDateDesc(SubSeq(ts, 1, Len(ts) - 1)))

expenseTransactions(txs, year) ==
    LET Shown(t) == /\ isDateInTaxYear(t.date, year)
                    /\ t.amount < 0
                    /\ t.category # HMRCCategory_PERSONAL_000
                    /\ t.category # "UNCATEGORIZED"
    IN  SortByDateDesc(Filter(txs, Shown))

\* the callback of expenseTransactions.find in processFile
isMatch(t, newInvoice) ==
    LET amountMatch == Abs(Abs(t.amount) - newInvoice.amount) < 10
        tDate == DateGetTime(t.date)
        iDate == DateGetTime(newInvoice.date)
        diffDays == Abs(tDate.days - iDate.days)
    IN  /\ t.matchedInvoiceId = NoInvoice
        /\ amountMatch
        /\ ~tDate.nan /\ ~iDate.nan /\ diffDays <= 7

\* Array.prototype.find: the first element that satisfies P, or NoTx
Find(seq, P(_)) ==
    IF \E i \in 1..Len(seq) : P(seq[i])
    THEN seq[CHOOSE i \in 1..Len(seq) : P(seq[i]) /\ \A j \in 1..(i - 1) : ~P(seq[j])]
    ELSE NoTx

\* new Date().toISOString().split('T')[0]
Today == DateStr(2024, 6, 1)

\* processFile up to the call of parseInvoiceImage: the callback keeps the
\* expenseTransactions of the render the file was dropped in
processFile_start ==
    /\ activeTab = "invoices"
    /\ uploads' = Append(uploads,
            [expenseTransactions |-> expenseTransactions(transactions, taxYear)])
    /\ last' = Op("processFile")
    /\ UNCHANGED <<transactions, invoices, properties, taxYear, selectedIds,
                   deleteTarget, isProcessing, imports, otherIncome, activeTab>>

\* the invoice made of what parseInvoiceImage gave, with the id Math.random
\* gave; an absent date reads as the empty string and an absent amount as 0,
\* which `||` treats alike
newInvoiceOf(extractedData, id) ==
    [id |-> id,
     date |-> IF extractedData.date # <<>> THEN extractedData.date ELSE Today,
     amount |-> IF extractedData.amount # 0 THEN extractedData.amount ELSE 0,
     status |-> "unmatched", matchedTransactionId |-> NoTransaction]

\* parseInvoiceImage of upload k has resolved: the rest of the callback
processFile_extracted(k, extractedData) ==
    /\ k \in 1..Len(uploads)
    /\ LET newInvoice == newInvoiceOf(extractedData, budget.invoices + 1)
           Matches(t) == isMatch(t, newInvoice)
           match == Find(uploads[k].expenseTransactions, Matches)
       IN  IF match # NoTx
           THEN /\ transactions' = [i \in 1..Len(transactions) |->
                        IF transactions[i].id = match.id
                        THEN [transactions[i] EXCEPT
                                !.matchedInvoiceId = newInvoice.id,
                                !.status = "reconciled"]
                        ELSE transactions[i]]
                /\ invoices' = Append(invoices,
                        [newInvoice EXCEPT !.status = "matched",
                                           !.matchedTransactionId = match.id])
                /\ last' = Op("processFileMatched")
           ELSE /\ invoices' = Append(invoices, newInvoice)
                /\ last' = Op("processFileUnmatched")
                /\ UNCHANGED transactions
    /\ uploads' = RemoveAt(uploads, k)
    /\ budget' = [budget EXCEPT !.invoices = budget.invoices + 1]
    /\ UNCHANGED <<properties, taxYear, selectedIds, deleteTarget, isProcessing,
                   imports, otherIncome, activeTab>>

\* parseInvoiceImage of upload k has thrown: the catch branch
processFile_failed(k) ==
    /\ k \in 1..Len(uploads)
    /\ invoices' = Append(invoices,
            [id |-> budget.invoices + 1, date |-> Today, amount |-> 0,
             status |-> "unmatched", matchedTransactionId |-> NoTransaction])
    /\ last' = Op("processFileFailed")
    /\ uploads' = RemoveAt(uploads, k)
    /\ budget' = [budget EXCEPT !.invoices = budget.invoices + 1]
    /\ UNCHANGED <<transactions, properties, taxYear, selectedIds, deleteTarget,
                   isProcessing, imports, otherIncome, activeTab>>

\* a click on a row of the expense checklist
toggleMatch(id) ==
    /\ activeTab = "invoices"
    /\ id \in Ids(expenseTransactions(transactions, taxYear))
    /\ transactions' = [i \in 1..Len(transactions) |->
            IF transactions[i].id # id THEN transactions[i]
            ELSE [transactions[i] EXCEPT !.status =
                    IF transactions[i].status = "reconciled" THEN "pending"
                    ELSE "reconciled"]]
    /\ last' = Op("toggleMatch")
    /\ UNCHANGED <<invoices, properties, taxYear, selectedIds, deleteTarget,
                   isProcessing, imports, uploads, otherIncome, activeTab, budget>>

\* the bin of a receipt, confirmed
deleteInvoice(id) ==
    /\ activeTab = "invoices"
    /\ \E i \in 1..Len(invoices) : invoices[i].id = id
    /\ LET HasId(inv) == inv.id = id
           Other(inv) == inv.id # id
           invoiceToDelete == Head(Filter(invoices, HasId))
       IN  /\ transactions' =
                IF invoiceToDelete.matchedTransactionId # NoTransaction
                THEN [i \in 1..Len(transactions) |->
                        IF transactions[i].id = invoiceToDelete.matchedTransactionId
                        THEN [transactions[i] EXCEPT !.matchedInvoiceId = NoInvoice,
                                                     !.status = "pending"]
                        ELSE transactions[i]]
                ELSE transactions
           /\ invoices' = Filter(invoices, Other)
    /\ last' = Op("deleteInvoice")
    /\ UNCHANGED <<properties, taxYear, selectedIds, deleteTarget, isProcessing,
                   imports, uploads, otherIncome, activeTab, budget>>

----------------------------------------------------------------------------
(* App and TaxEstimator *)

Tabs == {"dashboard", "transactions", "invoices", "tax"}

\* setActiveTab: the component of the tab left is unmounted and its state is
\* gone; a batch in flight keeps the setters of the unmounted component
setActiveTab(tab) ==
    /\ UserFree
    /\ tab \in Tabs /\ tab # activeTab
    /\ activeTab' = tab
    /\ IF activeTab = "transactions"
       THEN /\ selectedIds' = {}
            /\ isProcessing' = FALSE
            /\ imports' = [k \in 1..Len(imports) |->
                                [imports[k] EXCEPT !.mounted = FALSE]]
       ELSE UNCHANGED <<selectedIds, isProcessing, imports>>
    /\ otherIncome' = IF activeTab = "tax" THEN 0 ELSE otherIncome
    /\ last' = Op("setActiveTab")
    /\ UNCHANGED <<transactions, invoices, properties, taxYear, deleteTarget,
                   uploads, budget>>

setTaxYear(year) ==
    /\ UserFree
    /\ year \in TAX_YEARS /\ year # taxYear
    /\ taxYear' = year
    /\ last' = Op("setTaxYear")
    /\ UNCHANGED <<transactions, invoices, properties, selectedIds, deleteTarget,
                   isProcessing, imports, uploads, otherIncome, activeTab, budget>>

setOtherIncome(value) ==
    /\ activeTab = "tax"
    /\ value # otherIncome
    /\ otherIncome' = value
    /\ last' = Op("setOtherIncome")
    /\ UNCHANGED <<transactions, invoices, properties, taxYear, selectedIds,
                   deleteTarget, isProcessing, imports, uploads, activeTab, budget>>

\* Dashboard: the form that adds a property; id is what Math.random gave
handleAddProperty(id) ==
    /\ activeTab = "dashboard"
    /\ properties' = Append(properties, id)
    /\ last' = Op("handleAddProperty")
    /\ UNCHANGED <<transactions, invoices, taxYear, selectedIds, deleteTarget,
                   isProcessing, imports, uploads, otherIncome, activeTab, budget>>

\* Dashboard: the bin of a property, confirmed
handleDeleteProperty(id) ==
    /\ activeTab = "dashboard"
    /\ InSeq(id, properties)
    /\ LET Other(p) == p # id
       IN  properties' = Filter(properties, Other)
    /\ last' = Op("handleDeleteProperty")
    /\ UNCHANGED <<transactions, invoices, taxYear, selectedIds, deleteTarget,
                   isProcessing, imports, uploads, otherIncome, activeTab, budget>>

\* the estimate the TaxEstimator shows, and the figures of the Dashboard
Estimate == estimate(transactions, taxYear, otherIncome)
Stats == stats(transactions, taxYear)

----------------------------------------------------------------------------
(* The inputs the specifications draw from *)

RowA == [date |-> DateStr(2024, 5, 15), description |-> <<"B", "G">>, amount |-> -4505]
RowB == [date |-> DateStr(2024, 5, 15), description |-> <<"B", "T">>, amount |-> -3000]

ImportBatches == {<<RowA>>, <<RowA, RowA>>, <<RowA, RowB>>}

ClassifierResponses ==
    {[kind |-> "json", category |-> "REPAIRS_101", propertyId |-> "p9",
      confidence |-> 90],
     [kind |-> "error", category |-> Undefined, propertyId |-> Undefined,
      confidence |-> 0]}

\* answers of the classifier: a category of the enumeration with a property
\* id that may be known, a category outside the enumeration with an invented
\* property id and a confidence above 1, a text without JSON, a failed call
ClassifierOutcomes ==
    {[kind |-> "json", category |-> "REPAIRS_101", propertyId |-> "p2",
      confidence |-> 90],
     [kind |-> "json", category |-> "GROCERIES", propertyId |-> "p9",
      confidence |-> 700],
     [kind |-> "text", category |-> Undefined, propertyId |-> Undefined,
      confidence |-> 0],
     [kind |-> "error", category |-> Undefined, propertyId |-> Undefined,
      confidence |-> 0]}

\* manual entries for the bulk operations: the first two get one id, the
\* third, dated in the next calendar year of the same period, another
BulkInputs ==
    {[date |-> DateStr(2024, 5, 17), description |-> <<"P">>, amount |-> -4509,
      category |-> "REPAIRS_101"],
     [date |-> DateStr(2024, 5, 12), description |-> <<"C">>, amount |-> -2000,
      category |-> "REPAIRS_101"],
     [date |-> DateStr(2025, 3, 1), description |-> <<"Q">>, amount |-> -3000,
      category |-> "INSUR_301"]}

Tags == {"D", "J", Undefined}

\* the ids Math.random gives to properties
PropertyIds == {"p1", "p2"}

ManualInputs ==
    {[date |-> DateStr(2024, 5, 17), description |-> <<"P">>, amount |-> -4509,
      category |-> "REPAIRS_101"],
     [date |-> DateStr(2024, 5, 12), description |-> <<"C">>, amount |-> -2000,
      category |-> "REPAIRS_101"]}

Timestamps == {1700000000, 1700000001}

Extractions == {[date |-> DateStr(2024, 5, 10), amount |-> 4500]}

Recategorizations == {"UNCATEGORIZED"}

TaxEntry(y, m, d, amount, category) ==
    [date |-> DateStr(y, m, d), description |-> <<"T">>, amount |-> amount,
     category |-> category]

TaxInputs ==
    {TaxEntry(2024, 5, 15, 1200000, "RENTAL_INC_001"),
     TaxEntry(2024, 5, 15, 11000000, "RENTAL_INC_001"),
     TaxEntry(2024, 4, 5, 1200000, "RENTAL_INC_001"),
     TaxEntry(2024, 5, 15, -200000, "REPAIRS_101"),
     TaxEntry(2024, 5, 15, -500000, "MORT_INT_701"),
     TaxEntry(2024, 5, 15, -200000, "UNCATEGORIZED")}

OtherIncomes == {-1000000, 0, 1000000, 1514000, 1600000}

----------------------------------------------------------------------------
(* Specifications *)

\* The App once initData has run on a store that holds one property and no
\* transactions or invoices, the components with their useState defaults.
Init ==
    /\ transactions = <<>>
    /\ invoices = <<>>
    /\ properties = <<"p1">>
    /\ taxYear = 2024
    /\ selectedIds = {}
    /\ deleteTarget = NoTarget
    /\ isProcessing = FALSE
    /\ imports = <<>>
    /\ uploads = <<>>
    /\ otherIncome = 0
    /\ activeTab = "dashboard"
    /\ budget = [uploads |-> 0, invoices |-> 0]
    /\ last = Op("init")

\* the rows batch b will append
RECURSIVE InFlight(_)
InFlight(bs) ==
    LET NotSkipped(r) == r.st # "skipped"
    IN  IF bs = <<>> THEN 0
        ELSE CountWhere(Head(bs).results, NotSkipped) + InFlight(Tail(bs))

ImportStart ==
    /\ Len(imports) < MaxImports
    /\ \E dataItems \in ImportBatches :
          /\ Len(transactions) + InFlight(imports) + Len(dataItems) <= MaxTx
          /\ processImportedData_start(dataItems)
    /\ UNCHANGED budget

ImportNoRows == handleFile_noRows

Classified ==
    \E k \in 1..Len(imports) : \E i \in 1..Len(imports[k].results) :
        \E resp \in ClassifierResponses : processImportedData_classified(k, i, resp)

ImportApply == \E k \in 1..Len(imports) : processImportedData_apply(k)

ManualAdd ==
    /\ Len(transactions) + InFlight(imports) < MaxTx
    /\ \E m \in ManualInputs : \E now \in Timestamps :
          handleManualAdd(m.date, m.description, m.amount, "", m.category,
                          Undefined, now)
    /\ UNCHANGED budget

Select == \E id \in Ids(transactions) : handleSelect(id)

AskDelete ==
    \/ setDeleteTarget(BulkTarget)
    \/ \E id \in Ids(transactions) : setDeleteTarget(IdTarget(id))

Recategorize ==
    \E id \in Ids(transactions) : \E c \in Recategorizations : updateCategory(id, c)

UploadStart ==
    /\ budget.uploads < MaxUploads
    /\ processFile_start
    /\ budget' = [budget EXCEPT !.uploads = budget.uploads + 1]

UploadExtracted ==
    \E k \in 1..Len(uploads) : \E x \in Extractions : processFile_extracted(k, x)

UploadFailed == \E k \in 1..Len(uploads) : processFile_failed(k)

Toggle == \E id \in Ids(transactions) : toggleMatch(id)

DeleteInvoice == \E i \in 1..Len(invoices) : deleteInvoice(invoices[i].id)

SwitchTab == \E tab \in {"transactions", "invoices"} : setActiveTab(tab)

AskDeleteOne == \E id \in Ids(transactions) : setDeleteTarget(IdTarget(id))

\* The receipt hub and the ledger it works on, the entries made by hand
Next ==
    \/ SwitchTab
    \/ ManualAdd
    \/ Recategorize
    \/ AskDeleteOne
    \/ cancelDelete
    \/ executeDelete
    \/ UploadStart
    \/ UploadExtracted
    \/ UploadFailed
    \/ Toggle
    \/ DeleteInvoice

Spec == Init /\ [][Next]_vars

TaxManualAdd ==
    /\ Len(transactions) < MaxTaxTx
    /\ \E m \in TaxInputs :
          handleManualAdd(m.date, m.description, m.amount, "", m.category,
                          Undefined, CHOOSE now \in Timestamps : TRUE)
    /\ UNCHANGED budget

TaxSetOtherIncome == \E v \in OtherIncomes : setOtherIncome(v)

TaxSetTaxYear == \E y \in {2023, 2024} : setTaxYear(y)

TaxSwitchTab == \E tab \in {"transactions", "tax"} : setActiveTab(tab)

\* The ledger under the tax estimate
TaxNext ==
    \/ TaxSwitchTab
    \/ TaxManualAdd
    \/ TaxSetOtherIncome
    \/ TaxSetTaxYear

TaxSpec == Init /\ [][TaxNext]_vars

\* The ledger with its bank-statement imports
ImportNext ==
    \/ SwitchTab
    \/ ImportStart
    \/ ImportNoRows
    \/ Classified
    \/ ImportApply
    \/ ManualAdd
    \/ Select
    \/ Recategorize
    \/ AskDelete
    \/ cancelDelete
    \/ executeDelete

ImportSpec == Init /\ [][ImportNext]_vars

\* the property ids in use: Math.random gives none of them again
RECURSIVE BatchProperties(_)
BatchProperties(bs) ==
    IF bs = <<>> THEN {}
    ELSE {Head(bs).properties[i] : i \in 1..Len(Head(bs).properties)}
         \cup BatchProperties(Tail(bs))

UsedPropertyIds ==
    {properties[i] : i \in 1..Len(properties)}
    \cup {transactions[i].propertyId : i \in 1..Len(transactions)}
    \cup BatchProperties(imports)

AddProperty ==
    /\ Len(properties) < MaxProperties
    /\ \E id \in PropertyIds \ UsedPropertyIds : handleAddProperty(id)

DeleteProperty == \E id \in PropertyIds : handleDeleteProperty(id)

ClassifyImportStart ==
    /\ Len(imports) < MaxClassifyImports
    /\ \E dataItems \in ImportBatches :
          /\ Len(transactions) + InFlight(imports) + Len(dataItems)
                <= MaxClassifyRows
          /\ processImportedData_start(dataItems)
    /\ UNCHANGED budget

ClassifiedAny ==
    \E k \in 1..Len(imports) : \E i \in 1..Len(imports[k].results) :
        \E resp \in ClassifierOutcomes : processImportedData_classified(k, i, resp)

ClassifySwitchTab == \E tab \in {"dashboard", "transactions"} : setActiveTab(tab)

\* The ledger with its imports, the classifier answering anything, and the
\* property list of the dashboard
ClassifyNext ==
    \/ ClassifySwitchTab
    \/ AddProperty
    \/ DeleteProperty
    \/ ClassifyImportStart
    \/ ClassifiedAny
    \/ ImportApply

ClassifySpec == Init /\ [][ClassifyNext]_vars

----------------------------------------------------------------------------
(* Properties of the tax estimate (TaxSpec) *)

\* C3: for every ledger and every supplemental income the relief lies between
\* 0 and the tax before relief, the final tax is not negative, and the final
\* tax is the tax before relief minus the relief.
ReliefBounded ==
    /\ 0 <= Estimate.financeCostReliefX40
    /\ Estimate.financeCostReliefX40 <= Estimate.estimatedTaxBeforeReliefX40
    /\ Estimate.finalEstimatedTaxX40 >= 0
    /\ Estimate.finalEstimatedTaxX40 =
          Estimate.estimatedTaxBeforeReliefX40 - Estimate.financeCostReliefX40

\* the estimate is on show with tax due and 20% of the finance costs above it
ReliefCapReached ==
    /\ activeTab = "tax"
    /\ Estimate.estimatedTaxBeforeReliefX40 > 0
    /\ Estimate.financeCosts * 8 > Estimate.estimatedTaxBeforeReliefX40

\* C4: a step that does not lower the total income (taxable profit plus
\* supplemental income) does not lower the tax before relief, the taper of
\* the allowance between 100000 and 125140 included.
BandMonotonicity ==
    [][LET after == estimate(transactions', taxYear', otherIncome')
       IN  Estimate.totalIncome <= after.totalIncome
             => Estimate.estimatedTaxBeforeReliefX40
                  <= after.estimatedTaxBeforeReliefX40]_vars

\* a supplemental income was typed that puts the total income inside the taper
\* range, the allowance partly withdrawn
TaperReached ==
    /\ last.op = "setOtherIncome"
    /\ Estimate.totalIncome > TaperThreshold
    /\ Estimate.allowanceX2 > 0
    /\ Estimate.allowanceX2 < 2 * BaseAllowance

\* the last transaction of the ledger is an outgoing in category c
NewOutgoingIn(txs, c) ==
    /\ txs # <<>>
    /\ txs[Len(txs)].amount < 0
    /\ txs[Len(txs)].category = c

\* C5: a step that adds a transaction of negative amount in the personal or
\* the uncategorized category leaves the deductible expenses of the estimate
\* and of the dashboard, and the taxable profit, as they were.
PersonalAndUncategorizedExcluded ==
    [][(/\ Len(transactions') = Len(transactions) + 1
        /\ \/ NewOutgoingIn(transactions', "PERSONAL_000")
           \/ NewOutgoingIn(transactions', "UNCATEGORIZED"))
         => /\ estimate(transactions', taxYear', otherIncome').otherExpenses
                  = Estimate.otherExpenses
            /\ estimate(transactions', taxYear', otherIncome').taxableProfit
                  = Estimate.taxableProfit
            /\ stats(transactions', taxYear').expenses = Stats.expenses]_vars

----------------------------------------------------------------------------
(* Properties of the receipt hub (Spec) *)

\* C1: link symmetry in every reachable state: a matched invoice names a
\* stored transaction that is reconciled and carries the invoice's id, and a
\* transaction that carries an invoice id names a stored invoice that is
\* matched and names the transaction.
LinkSymmetry ==
    /\ \A i \in 1..Len(invoices) :
          invoices[i].status = "matched" =>
             \E j \in 1..Len(transactions) :
                /\ transactions[j].id = invoices[i].matchedTransactionId
                /\ transactions[j].status = "reconciled"
                /\ transactions[j].matchedInvoiceId = invoices[i].id
    /\ \A j \in 1..Len(transactions) :
          transactions[j].matchedInvoiceId # NoInvoice =>
             \E i \in 1..Len(invoices) :
                /\ invoices[i].id = transactions[j].matchedInvoiceId
                /\ invoices[i].status = "matched"
                /\ invoices[i].matchedTransactionId = transactions[j].id

\* the step stores the invoice made of an extraction
InvoiceIngested ==
    /\ Len(invoices') = Len(invoices) + 1
    /\ last'.op \in {"processFileMatched", "processFileUnmatched"}

\* days between two dates of the calendar
DaysApart(a, b) == Abs(DateGetTime(a).days - DateGetTime(b).days)

\* what the match criteria ask of transaction t for invoice inv
Eligible(t, inv) ==
    /\ isDateInTaxYear(t.date, taxYear)
    /\ t.amount < 0
    /\ t.category \notin {"PERSONAL_000", "UNCATEGORIZED"}
    /\ t.matchedInvoiceId = NoInvoice
    /\ Abs(Abs(t.amount) - inv.amount) < 10
    /\ DaysApart(t.date, inv.date) <= 7

\* C6: when an invoice is ingested, the transaction chosen as its match is a
\* stored transaction of the selected period with a negative amount, neither
\* personal nor uncategorized, without an invoice link, less than 0.10 from
\* the invoice amount and at most 7 days from the invoice date; and when
\* such a transaction is stored, a match is made.
MatchIsEligible ==
    [][InvoiceIngested =>
         LET inv == invoices'[Len(invoices')]
         IN  /\ inv.status = "matched" =>
                   \E j \in 1..Len(transactions) :
                      /\ transactions[j].id = inv.matchedTransactionId
                      /\ Eligible(transactions[j], inv)
             /\ (\E j \in 1..Len(transactions) : Eligible(transactions[j], inv))
                   => inv.status = "matched"]_vars

\* C7: the step that stores an invoice updates both sides or neither: a
\* matched invoice names a stored transaction which the step leaves
\* reconciled and linked to the invoice, the transactions of other ids as
\* they were; an unmatched invoice has no link and the ledger is unchanged.
BothSidesOrNeither ==
    [][Len(invoices') = Len(invoices) + 1 =>
         LET inv == invoices'[Len(invoices')]
         IN  IF inv.status = "matched"
             THEN /\ Len(transactions') = Len(transactions)
                  /\ \E j \in 1..Len(transactions) :
                        /\ transactions[j].id = inv.matchedTransactionId
                        /\ transactions'[j].status = "reconciled"
                        /\ transactions'[j].matchedInvoiceId = inv.id
                  /\ \A j \in 1..Len(transactions) :
                        transactions[j].id # inv.matchedTransactionId
                           => transactions'[j] = transactions[j]
             ELSE /\ inv.status = "unmatched"
                  /\ inv.matchedTransactionId = NoTransaction
                  /\ transactions' = transactions]_vars

\* C8: the step that deletes an invoice removes that invoice alone; of a
\* matched invoice it leaves the linked transaction pending without a link
\* and changes no other transaction; of an unmatched invoice it changes no
\* transaction.
DeleteInvoiceFrame ==
    [][Len(invoices') = Len(invoices) - 1 =>
         \E i \in 1..Len(invoices) :
            LET d == invoices[i]
                changed == {j \in 1..Len(transactions) :
                               transactions'[j] # transactions[j]}
            IN  /\ invoices' = RemoveAt(invoices, i)
                /\ Len(transactions') = Len(transactions)
                /\ Cardinality(changed) <= 1
                /\ \A j \in 1..Len(transactions) :
                      transactions[j].id = d.matchedTransactionId =>
                         /\ transactions'[j].status = "pending"
                         /\ transactions'[j].matchedInvoiceId = NoInvoice
                /\ \A j \in changed :
                      /\ d.status = "matched"
                      /\ transactions[j].id = d.matchedTransactionId]_vars

----------------------------------------------------------------------------
(* Properties of the import and of the ids (ImportSpec) *)

\* C2: the import is idempotent: the ledger never holds two imported
\* transactions of the same date, description and amount, whether the triple
\* came twice in one batch, in successive batches or in overlapping batches.
ImportIdempotent ==
    \A i, j \in 1..Len(transactions) :
       (/\ i # j
        /\ transactions[i].source = "bank_upload"
        /\ transactions[j].source = "bank_upload")
         => ~(/\ transactions[i].date = transactions[j].date
              /\ transactions[i].description = transactions[j].description
              /\ transactions[i].amount = transactions[j].amount)

\* C9: the step that appends a batch keeps every stored transaction as it
\* was, appends no row whose id is the id of a stored transaction, appends
\* as many rows as the batch counted as added, and the added and the skipped
\* counts of the batch make the number of its rows.
CollidingRowDropped ==
    [][Len(imports') = Len(imports) - 1 =>
         \E k \in 1..Len(imports) :
            /\ imports' = RemoveAt(imports, k)
            /\ Len(transactions') = Len(transactions) + imports[k].addedCount
            /\ SubSeq(transactions', 1, Len(transactions)) = transactions
            /\ imports[k].addedCount + imports[k].skippedCount
                  = Len(imports[k].dataItems)
            /\ \A j \in (Len(transactions) + 1)..Len(transactions') :
                  transactions'[j].id \notin Ids(transactions)]_vars

\* C10: the id of a manual entry is the id of no other transaction, imported
\* or manual.
ManualIdsNeverCollide ==
    \A i, j \in 1..Len(transactions) :
       (i # j /\ transactions[i].source = "manual")
          => transactions[i].id # transactions[j].id

----------------------------------------------------------------------------
(* Properties of the classification (ClassifySpec) *)

\* C11: the category of every stored transaction is a member of the
\* enumeration HMRCCategory, whatever the classifier answered.
CategoryInEnumeration ==
    \A i \in 1..Len(transactions) : transactions[i].category \in HMRCCategory

\* the step appends the rows of a batch whose calls have all resolved
BatchApplied(k) ==
    /\ k \in 1..Len(imports)
    /\ Len(imports') = Len(imports) - 1
    /\ imports' = RemoveAt(imports, k)

\* the rows of batch b that were classified
DoneRows(b) == {i \in 1..Len(b.results) : b.results[i].st = "done"}

\* transaction t holds the date, description and amount of row item
IsRow(t, item) ==
    /\ t.source = "bank_upload"
    /\ t.date = item.date
    /\ t.description = item.description
    /\ t.amount = item.amount

\* where the step that appends batch b puts its row i: Promise.all keeps
\* the order of the rows, the filter drops the skipped ones
PlaceOf(b, i) == Len(transactions) + Cardinality({h \in DoneRows(b) : h <= i})

SafeClassifierDefault ==
    \A k \in 1..Len(imports) : \A i \in DoneRows(imports[k]) :
       LET resp == imports[k].results[i].resp
           aiResult == categorizeTransaction(resp)
       IN  /\ resp.kind \in {"error", "text"} =>
                /\ aiResult.category = "UNCATEGORIZED"
                /\ aiResult.confidence = 0
                /\ aiResult.propertyId = Undefined
           /\ 0 <= aiResult.confidence
           /\ aiResult.confidence <= 100

\* C14: a failed classification call does not abort its batch: the step
\* that ends a batch appends every row that was not skipped, a row whose
\* call failed with category UNCATEGORIZED and every other row with the
\* category its own call gave, and leaves isProcessing false; and a batch
\* whose calls have all resolved, failed or not, can take that step.
FailedCallDoesNotAbort ==
    [][/\ \A k \in 1..Len(imports) :
             (\A i \in 1..Len(imports[k].results) :
                 imports[k].results[i].st # "pending")
                => ENABLED processImportedData_apply(k)
       /\ \A k \in 1..Len(imports) : BatchApplied(k) =>
             LET b == imports[k]
             IN  /\ Len(transactions')
                       = Len(transactions) + Cardinality(DoneRows(b))
                 /\ \A i \in 1..Len(b.results) : b.results[i].st \in {"done", "skipped"}
                 /\ \A i \in 1..Len(b.results) :
                       b.results[i].st = "skipped"
                          <=> importId(b.dataItems[i]) \in b.existingIds
                 /\ \A i \in DoneRows(b) :
                       /\ IsRow(transactions'[PlaceOf(b, i)], b.dataItems[i])
                       /\ transactions'[PlaceOf(b, i)].category =
                             IF b.results[i].resp.kind = "error"
                             THEN "UNCATEGORIZED"
                             ELSE categorizeTransaction(b.results[i].resp).category
                 /\ b.mounted => isProcessing' = FALSE]_vars

\* a batch of two rows was appended, the call of the first failed and the
\* call of the second gave a category
FailedRowAndSiblingImported ==
    /\ last.op = "import"
    /\ imports = <<>>
    /\ ~isProcessing
    /\ Len(transactions) = 2
    /\ IsRow(transactions[1], RowA)
    /\ transactions[1].category = "UNCATEGORIZED"
    /\ IsRow(transactions[2], RowB)
    /\ transactions[2].category = "REPAIRS_101"

----------------------------------------------------------------------------
(* The bulk operations of the transaction table (BulkSpec) *)

BulkManualAdd ==
    /\ Len(transactions) < MaxBulkTx
    /\ \E m \in BulkInputs :
          handleManualAdd(m.date, m.description, m.amount, "", m.category,
                          Undefined, CHOOSE now \in Timestamps : TRUE)
    /\ UNCHANGED budget

BulkApplyTag == \E tag \in Tags : bulkApplyTag(tag)

BulkSwitchTab == \E tab \in {"dashboard", "transactions"} : setActiveTab(tab)

BulkNext ==
    \/ BulkSwitchTab
    \/ BulkManualAdd
    \/ Select
    \/ handleSelectAll
    \/ BulkApplyTag
    \/ AskDelete
    \/ cancelDelete
    \/ executeDelete

BulkSpec == Init /\ [][BulkNext]_vars

\* C15: bulk tag and bulk delete are all-or-nothing over the selected ids:
\* the tagging step leaves every transaction of a selected id with the new
\* tag and every other transaction as it was; the bulk delete step removes
\* every transaction of a selected id and keeps the others, in their order,
\* as they were.
BulkAllOrNothing ==
    [][/\ last'.op = "bulkApplyTag" =>
             /\ Len(transactions') = Len(transactions)
             /\ \E tag \in Tags : \A j \in 1..Len(transactions) :
                   transactions'[j] =
                      IF transactions[j].id \in selectedIds
                      THEN [transactions[j] EXCEPT !.tag = tag]
                      ELSE transactions[j]
       /\ last'.op = "executeDeleteBulk" =>
             LET Outside(t) == t.id \notin selectedIds
             IN  /\ \A j \in 1..Len(transactions') :
                       transactions'[j].id \notin selectedIds
                 /\ transactions' = SelectSeq(transactions, Outside)]_vars

\* two ids were selected and tagged, a transaction of a third id was not
BulkTagApplied ==
    /\ last.op = "bulkApplyTag"
    /\ last.tag = "D"
    /\ \E i, j \in 1..Len(transactions) :
          /\ transactions[i].id \in last.ids
          /\ transactions[i].tag = "D"
          /\ transactions[j].id \notin last.ids
          /\ transactions[j].tag = "J"

----------------------------------------------------------------------------
(* The manual reconciliation toggle (Spec) *)

\* C16: the toggle step changes no invoice and no transaction that holds an
\* invoice link; a transaction it changes has no link and only its status
\* changes, pending to reconciled or reconciled to pending.
ToggleOnlyUnlinked ==
    [][last'.op = "toggleMatch" =>
         /\ invoices' = invoices
         /\ Len(transactions') = Len(transactions)
         /\ \A j \in 1..Len(transactions) :
               /\ transactions[j].matchedInvoiceId # NoInvoice
                     => transactions'[j] = transactions[j]
               /\ transactions'[j] # transactions[j] =>
                     transactions'[j] =
                        [transactions[j] EXCEPT !.status =
                            IF transactions[j].status = "pending"
                            THEN "reconciled" ELSE "pending"]]_vars

----------------------------------------------------------------------------
(* The periods (PeriodSpec): isDateInTaxYear applied to canonical dates *)

PeriodYears == 2022..2028
PeriodDays == {1, 5, 6, 28}
PeriodDates ==
    {DateStr(y, m, d) : y \in PeriodYears, m \in 1..12, d \in PeriodDays}

PeriodInit ==
    /\ transactions = <<>>
    /\ invoices = <<>>
    /\ properties = <<"p1">>
    /\ taxYear = 2024
    /\ selectedIds = {}
    /\ deleteTarget = NoTarget
    /\ isProcessing = FALSE
    /\ imports = <<>>
    /\ uploads = <<>>
    /\ otherIncome = 0
    /\ activeTab = "dashboard"
    /\ budget = [uploads |-> 0, invoices |-> 0]
    /\ last \in {[op |-> "date", date |-> d, year |-> y, result |-> FALSE] :
                    d \in PeriodDates, y \in TAX_YEARS}

PeriodCheck ==
    /\ last.op = "date"
    /\ last' = [op |-> "isDateInTaxYear", date |-> last.date, year |-> last.year,
                result |-> isDateInTaxYear(last.date, last.year)]
    /\ UNCHANGED <<transactions, invoices, properties, taxYear, selectedIds,
                   deleteTarget, isProcessing, imports, uploads, otherIncome,
                   activeTab, budget>>

PeriodSpec == PeriodInit /\ [][PeriodCheck]_vars

\* the day number of a date of the calendar
DayOf(y, m, d) == DateGetTime(DateStr(y, m, d)).days

\* C17: a canonical date is in a period iff it lies from 6 April of the
\* start year to 5 April of the next year, both included; and it is in
\* exactly one period when it lies from the start of the first period to
\* the end of the last, in none otherwise.
PeriodsPartitionDates ==
    last.op = "isDateInTaxYear" =>
       LET day == DateGetTime(last.date).days
           periodsOfDate == {y \in TAX_YEARS : isDateInTaxYear(last.date, y)}
       IN  /\ last.result <=> /\ DayOf(last.year, 4, 6) <= day
                              /\ day <= DayOf(last.year + 1, 4, 5)
           /\ Cardinality(periodsOfDate) =
                 IF DayOf(2023, 4, 6) <= day /\ day <= DayOf(2027, 4, 5)
                 THEN 1 ELSE 0

\* the last day of a period was found in the period
PeriodEndIncluded ==
    /\ last.op = "isDateInTaxYear"
    /\ last.date = DateStr(2025, 4, 5)
    /\ last.year = 2024
    /\ last.result

----------------------------------------------------------------------------
(* More properties of the tax estimate (TaxSpec) *)

\* the estimate of the worked example: gross income 12000, other expenses
\* 2000, finance costs 5000, no supplemental income
WorkedExample ==
    /\ Estimate.rentalIncome = 1200000
    /\ Estimate.otherExpenses = 200000
    /\ Estimate.financeCosts = 500000
    /\ otherIncome = 0

\* C18: when the total income is not above the allowance of 12570, the
\* taxable income, the tax before relief, the relief and the final tax are 0
\* whatever the finance costs; the worked example has taxable profit 10000,
\* total income 10000 and final tax 0.
AllowanceAbsorbsIncome ==
    /\ Estimate.totalIncome <= BaseAllowance =>
          /\ Estimate.taxableIncomeX2 = 0
          /\ Estimate.estimatedTaxBeforeReliefX40 = 0
          /\ Estimate.financeCostReliefX40 = 0
          /\ Estimate.finalEstimatedTaxX40 = 0
    /\ WorkedExample =>
          /\ Estimate.taxableProfit = 1000000
          /\ Estimate.totalIncome = 1000000
          /\ Estimate.finalEstimatedTaxX40 = 0

\* the worked example is on show in the tax estimator
WorkedExampleShown == activeTab = "tax" /\ WorkedExample

\* no transaction of the ledger lies in the selected period
NothingInPeriod ==
    \A i \in 1..Len(transactions) : ~isDateInTaxYear(transactions[i].date, taxYear)

\* C19: with no transaction in the selected period and no supplemental
\* income every figure of the estimate is zero: gross income, deductible
\* expenses, finance costs, taxable profit, net cash flow, tax before
\* relief, relief, final tax, the basic, higher and additional entries of
\* the breakdown and its allowance entry.
EmptyEstimateAllZero ==
    (NothingInPeriod /\ otherIncome = 0) =>
       /\ Estimate.rentalIncome = 0
       /\ Estimate.otherExpenses = 0
       /\ Estimate.financeCosts = 0
       /\ Estimate.taxableProfit = 0
       /\ Estimate.netCashFlow = 0
       /\ Estimate.estimatedTaxBeforeReliefX40 = 0
       /\ Estimate.financeCostReliefX40 = 0
       /\ Estimate.finalEstimatedTaxX40 = 0
       /\ Estimate.breakdown.basicTaxX40 = 0
       /\ Estimate.breakdown.higherTaxX40 = 0
       /\ Estimate.breakdown.additionalTaxX40 = 0
       /\ Estimate.allowanceX2 = 0

MaxJoinRows == 2
MaxJoinImports == 1

JoinImportStart ==
    /\ Len(imports) < MaxJoinImports
    /\ \E dataItems \in ImportBatches :
          /\ Len(transactions) + InFlight(imports) + Len(dataItems) <= MaxJoinRows
          /\ processImportedData_start(dataItems)
    /\ UNCHANGED budget

JoinManualAdd ==
    /\ Len(transactions) + InFlight(imports) < MaxJoinRows
    /\ \E m \in ManualInputs :
          handleManualAdd(m.date, m.description, m.amount, "", m.category,
                          Undefined, CHOOSE now \in Timestamps : TRUE)
    /\ UNCHANGED budget

\* The ledger the user edits while a statement import is in flight
JoinNext ==
    \/ SwitchTab
    \/ JoinImportStart
    \/ Classified
    \/ ImportApply
    \/ JoinManualAdd
    \/ Recategorize
    \/ AskDeleteOne
    \/ cancelDelete
    \/ executeDelete

JoinSpec == Init /\ [][JoinNext]_vars

\* the transactions batch b made, in the order of its rows
BatchResults(b) ==
    LET IsDone(r) == r.st = "done"
        done == SelectSeq(b.results, IsDone)
    IN  [i \in 1..Len(done) |-> done[i].tx]

\* C20: a batch import leaves the ledger alone when it is dispatched and
\* when one of its classification calls resolves; the one step that ends
\* the batch is taken with no call of the batch unresolved and appends all
\* the rows the batch made to the ledger as it is at that step, so nothing
\* the user did to the ledger while the batch was in flight is lost.
JoinBeforeMutate ==
    [][ /\ (Len(imports') >= Len(imports) /\ imports' # imports)
              => transactions' = transactions
        /\ Len(imports') < Len(imports)
              => \E k \in 1..Len(imports) :
                    /\ imports' = RemoveAt(imports, k)
                    /\ \A i \in 1..Len(imports[k].results) :
                          imports[k].results[i].st # "pending"
                    /\ transactions' = transactions \o BatchResults(imports[k])
      ]_vars

\* a batch has been applied below an entry made by hand while the batch was
\* in flight
UserChangeSurvivesImport ==
    /\ last.op = "import"
    /\ \E i, j \in 1..Len(transactions) :
          /\ i < j
          /\ transactions[i].source = "manual"
          /\ transactions[i].id \notin last.existingIds
          /\ transactions[j].source = "bank_upload"

----------------------------------------------------------------------------
(* The receipt hub on a ledger whose ids differ *)

\* two expenses of the tax year 2024-2025, three days apart, whose ids differ
\* in the year of their dates
MatchInputs ==
    {[date |-> DateStr(2025, 1, 2), description |-> <<"P">>, amount |-> -4509,
      category |-> "REPAIRS_101"],
     [date |-> DateStr(2024, 12, 30), description |-> <<"C">>, amount |-> -4500,
      category |-> "REPAIRS_101"]}

\* a receipt both expenses match
MatchExtractions == {[date |-> DateStr(2024, 12, 31), amount |-> 4500]}

MatchManualAdd ==
    /\ Len(transactions) < MaxTx
    /\ \E m \in MatchInputs :
          handleManualAdd(m.date, m.description, m.amount, "", m.category,
                          Undefined, CHOOSE now \in Timestamps : TRUE)
    /\ UNCHANGED budget

MatchExtracted ==
    \E k \in 1..Len(uploads) : \E x \in MatchExtractions : processFile_extracted(k, x)

MatchNext ==
    \/ SwitchTab
    \/ MatchManualAdd
    \/ AskDeleteOne
    \/ cancelDelete
    \/ executeDelete
    \/ UploadStart
    \/ MatchExtracted
    \/ DeleteInvoice

MatchSpec == Init /\ [][MatchNext]_vars

\* the rows of the expense checklist a receipt dated and priced as inv can
\* be linked to
Candidates(inv) ==
    LET shown == expenseTransactions(transactions, taxYear)
    IN  {i \in 1..Len(shown) : isMatch(shown[i], inv)}

\* C21: when a receipt is extracted while two or more unlinked rows of the
\* expense checklist meet its amount and date criteria, the receipt is
\* linked to the first of them in the order of the checklist, exactly that
\* one transaction gets the link and every other transaction stays as it is.
FirstCandidateLinked ==
    [][ last'.op \in {"processFileMatched", "processFileUnmatched"} =>
          LET newInvoice == invoices'[Len(invoices')]
              shown == expenseTransactions(transactions, taxYear)
              C == Candidates(newInvoice)
          IN  Cardinality(C) >= 2 =>
                LET first == shown[CHOOSE i \in C : \A j \in C : i <= j]
                IN  /\ newInvoice.status = "matched"
                    /\ newInvoice.matchedTransactionId = first.id
                    /\ Len(transactions') = Len(transactions)
                    /\ \E p \in 1..Len(transactions) :
                          /\ transactions[p] = first
                          /\ transactions'[p] =
                                [first EXCEPT !.matchedInvoiceId = newInvoice.id,
                                              !.status = "reconciled"]
                          /\ \A q \in 1..Len(transactions) :
                                q # p => transactions'[q] = transactions[q]
      ]_vars

\* the ledger with the amount of every finance-cost expense set to a
FinanceAmounts == {-1, -25000, -5000000}

WithFinanceAmount(txs, a) ==
    [i \in 1..Len(txs) |->
        IF txs[i].category = "MORT_INT_701" /\ txs[i].amount < 0
        THEN [txs[i] EXCEPT !.amount = a]
        ELSE txs[i]]

\* the sum of the absolute amounts of the expenses of the period that are
\* not finance costs
RECURSIVE NonFinanceExpenses(_)
NonFinanceExpenses(ts) ==
    IF ts = <<>> THEN 0
    ELSE (IF /\ isDateInTaxYear(Head(ts).date, taxYear)
             /\ Head(ts).amount < 0
             /\ Head(ts).category # "MORT_INT_701"
          THEN Abs(Head(ts).amount) ELSE 0) + NonFinanceExpenses(Tail(ts))

----------------------------------------------------------------------------
(* The estimate of an empty ledger, by supplemental income *)

\* supplemental incomes in pence: every 500 pounds from -1000 to 131000
\* pounds, and the pence around the two ends of the taper (100000, 125140)
\* and around the incomes where the basic band (50270) and the higher band
\* (116760) are full
AllowanceIncomes ==
    {p * 50000 : p \in -2..262}
        \cup {9999999, 10000001, 10000002,
              12513998, 12513999, 12514000, 12514001,
              5026999, 5027000, 5027001,
              11675999, 11676000, 11676001}

AllowanceSetOtherIncome == \E v \in AllowanceIncomes : setOtherIncome(v)

AllowanceNext ==
    \/ TaxSwitchTab
    \/ AllowanceSetOtherIncome

AllowanceSpec == Init /\ [][AllowanceNext]_vars

\* C23: the allowance is 12570 up to a total income of 100000, 12570 less
\* half of the excess over 100000 from there to 125140 and 0 from 125140
\* on; it is never negative; it does not rise when the total income rises;
\* and the taxable income is max(0, total income - allowance).  Amounts in
\* pence, the allowance and the taxable income in half-pence.
AllowanceTaper ==
    [][LET e == Estimate
           after == estimate(transactions', taxYear', otherIncome')
           ti == e.totalIncome
       IN  /\ ti <= 10000000 => e.allowanceX2 = 2 * 1257000
           /\ (ti >= 10000000 /\ ti <= 12514000)
                 => e.allowanceX2 = 2 * 1257000 - (ti - 10000000)
           /\ ti >= 12514000 => e.allowanceX2 = 0
           /\ e.allowanceX2 >= 0
           /\ e.taxableIncomeX2 = Max(0, 2 * ti - e.allowanceX2)
           /\ ti <= after.totalIncome => after.allowanceX2 <= e.allowanceX2
      ]_vars

\* a total income above 125140 has been typed: the allowance is all withdrawn
AllowanceWithdrawn ==
    /\ last.op = "setOtherIncome"
    /\ Estimate.totalIncome > 12514000
    /\ Estimate.allowanceX2 = 0
    /\ Estimate.taxableIncomeX2 = 2 * Estimate.totalIncome

DeleteClearsInvoiceLink ==
    [][ last'.op \in {"executeDelete", "executeDeleteBulk"} =>
          \A id \in Ids(transactions) \ Ids(transactions') :
             \A i \in 1..Len(invoices') :
                ~(/\ invoices'[i].status = "matched"
                  /\ invoices'[i].matchedTransactionId = id)
      ]_vars

----------------------------------------------------------------------------
(* Statements whose rows carry the dates as the bank prints them *)

\* 15 May 2024 as parseBankStatement may give it: the answer of the model is
\* parsed and passed on, its date strings are not looked at
SlashDate == <<"1", "5", "/", "0", "5", "/", "2", "0", "2", "4">>
RowSlash == [date |-> SlashDate, description |-> <<"B", "T">>, amount |-> -3000]

DateBatches == {<<RowA>>, <<RowSlash>>, <<RowA, RowSlash>>}

DateImportStart ==
    /\ Len(imports) < MaxJoinImports
    /\ \E dataItems \in DateBatches :
          /\ Len(transactions) + InFlight(imports) + Len(dataItems) <= MaxJoinRows
          /\ processImportedData_start(dataItems)
    /\ UNCHANGED budget

DateNext ==
    \/ SwitchTab
    \/ DateImportStart
    \/ Classified
    \/ ImportApply
    \/ JoinManualAdd
    \/ AskDeleteOne
    \/ cancelDelete
    \/ executeDelete

DateSpec == Init /\ [][DateNext]_vars

\* YYYY-MM-DD with a month and a day of the calendar
IsCanonicalDate(s) == ~DateGetTime(s).nan

\* the canonical form of the day that s names, when s is YYYY-MM-DD or
\* DD/MM/YYYY; s itself otherwise
CalendarDay(s) ==
    IF /\ Len(s) = 10 /\ s[3] = "/" /\ s[6] = "/"
       /\ \A i \in {1, 2, 4, 5, 7, 8, 9, 10} : IsDigit(s[i])
    THEN SubSeq(s, 7, 10) \o <<"-">> \o SubSeq(s, 4, 5) \o <<"-">> \o SubSeq(s, 1, 2)
    ELSE s

\* C26: every stored transaction has its date in the form YYYY-MM-DD, and a
\* stored transaction whose day lies in the selected period is kept by the
\* period filter.
StoredDatesCanonical ==
    \A i \in 1..Len(transactions) :
       /\ IsCanonicalDate(transactions[i].date)
       /\ isDateInTaxYear(CalendarDay(transactions[i].date), taxYear)
             => isDateInTaxYear(transactions[i].date, taxYear)

\* C27: no two stored transactions have the same id, so that a single
\* delete or a recategorisation addressed to an id touches one transaction.
TransactionIdsUnique ==
    [][ /\ Cardinality(Ids(transactions)) = Len(transactions)
        /\ last'.op = "executeDelete" => Len(transactions') >= Len(transactions) - 1
        /\ last'.op = "updateCategory" =>
              Cardinality({i \in 1..Len(transactions) :
                              transactions'[i] # transactions[i]}) <= 1
      ]_vars

\* C28: two rows of a statement that differ in date, description or amount
\* get different ids, and a row is skipped as a duplicate only if a stored
\* transaction has its date, description and amount.
ImportIdInjective ==
    [][ Len(imports') = Len(imports) + 1 =>
          LET b == imports'[Len(imports')]
          IN  /\ \A i, j \in 1..Len(b.dataItems) :
                    importId(b.dataItems[i]) = importId(b.dataItems[j])
                       => b.dataItems[i] = b.dataItems[j]
              /\ \A i \in 1..Len(b.dataItems) :
                    b.results[i].st = "skipped" =>
                       \E p \in 1..Len(transactions) :
                          /\ transactions[p].date = b.dataItems[i].date
                          /\ transactions[p].description = b.dataItems[i].description
                          /\ transactions[p].amount = b.dataItems[i].amount
      ]_vars

\* C29: no two receipts in status 'matched' name the same transaction.
OneInvoicePerTransaction ==
    \A i, j \in 1..Len(invoices) :
       (/\ i # j
        /\ invoices[i].status = "matched"
        /\ invoices[j].status = "matched")
          => invoices[i].matchedTransactionId # invoices[j].matchedTransactionId

----------------------------------------------------------------------------
(* exportService and the Export menu *)

\* exportXeroJournals: the journal lines, one for each key
\* `${t.propertyId}-${t.category}` met in the transactions that are not
\* PERSONAL_000, with the sum of their amounts
exportXeroJournals(txs, props, year) ==
    LET Deductible(t) == t.category # HMRCCategory_PERSONAL_000
        deductibleTransactions == Filter(txs, Deductible)
        amountOf(p, c) ==
            LET InGroup(t) == t.propertyId = p /\ t.category = c
            IN  SumAmounts(Filter(deductibleTransactions, InGroup))
    IN  {[propertyId |-> deductibleTransactions[i].propertyId,
          category |-> deductibleTransactions[i].category,
          amount |-> amountOf(deductibleTransactions[i].propertyId,
                              deductibleTransactions[i].category)] :
            i \in 1..Len(deductibleTransactions)}

\* exportMTDBridging: one line for each category of the enumeration that
\* has a transaction, with the period, the sum and the count
exportMTDBridging(txs, props, year) ==
    LET Deductible(t) == t.category # HMRCCategory_PERSONAL_000
        deductibleTransactions == Filter(txs, Deductible)
        groupOf(cat) ==
            LET InGroup(t) == t.category = cat
            IN  Filter(deductibleTransactions, InGroup)
    IN  {[category |-> cat,
          start |-> getTaxYearDates(year).start,
          end |-> getTaxYearDates(year).end,
          amount |-> SumAmounts(groupOf(cat)),
          count |-> Len(groupOf(cat))] :
            cat \in {c \in HMRCCategory :
                        Len(groupOf(c)) > 0 /\ c # HMRCCategory_PERSONAL_000}}

\* exportGeneric: one line for each transaction
exportGeneric(txs, props, year) ==
    [i \in 1..Len(txs) |->
        [date |-> txs[i].date, description |-> txs[i].description,
         amount |-> txs[i].amount, category |-> txs[i].category,
         propertyId |-> txs[i].propertyId, tag |-> txs[i].tag,
         matched |-> txs[i].matchedInvoiceId # NoInvoice]]

\* the three buttons of the Export menu; last keeps the lines of the file
exportMenu_Xero ==
    /\ activeTab = "transactions" /\ UserFree
    /\ last' = [op |-> "exportXeroJournals",
                lines |-> exportXeroJournals(transactions, properties, taxYear)]
    /\ UNCHANGED <<transactions, invoices, properties, taxYear, selectedIds,
                   deleteTarget, isProcessing, imports, uploads, otherIncome,
                   activeTab, budget>>

exportMenu_MTD ==
    /\ activeTab = "transactions" /\ UserFree
    /\ last' = [op |-> "exportMTDBridging",
                lines |-> exportMTDBridging(transactions, properties, taxYear)]
    /\ UNCHANGED <<transactions, invoices, properties, taxYear, selectedIds,
                   deleteTarget, isProcessing, imports, uploads, otherIncome,
                   activeTab, budget>>

exportMenu_Generic ==
    /\ activeTab = "transactions" /\ UserFree
    /\ last' = [op |-> "exportGeneric",
                lines |-> exportGeneric(transactions, properties, taxYear)]
    /\ UNCHANGED <<transactions, invoices, properties, taxYear, selectedIds,
                   deleteTarget, isProcessing, imports, uploads, otherIncome,
                   activeTab, budget>>

\* repairs in and out of the tax year 2024-2025, for two properties
ExportInputs ==
    {[date |-> DateStr(2024, 5, 17), amount |-> -4509, propertyId |-> "p1"],
     [date |-> DateStr(2024, 5, 12), amount |-> -2000, propertyId |-> ""],
     [date |-> DateStr(2024, 4, 5), amount |-> -3000, propertyId |-> "p1"]}

ExportManualAdd ==
    /\ Len(transactions) < MaxTaxTx
    /\ \E m \in ExportInputs :
          handleManualAdd(m.date, <<"P">>, m.amount, m.propertyId, "REPAIRS_101",
                          Undefined, CHOOSE now \in Timestamps : TRUE)
    /\ UNCHANGED budget

ExportNext ==
    \/ TaxSwitchTab
    \/ TaxSetTaxYear
    \/ ExportManualAdd
    \/ exportMenu_Xero
    \/ exportMenu_MTD
    \/ exportMenu_Generic

ExportSpec == Init /\ [][ExportNext]_vars

\* the transactions of the selected period that are not personal
InPeriodTransactions ==
    LET Counted(t) == /\ isDateInTaxYear(t.date, taxYear)
                      /\ t.category # HMRCCategory_PERSONAL_000
    IN  Filter(transactions, Counted)

\* C30: an export holds the transactions of the selected period only: each
\* total of the Xero journals is the sum of the in-period transactions of
\* its property and category, each total and count of the MTD summary those
\* of the in-period transactions of its category, and every row of the
\* itemized listing is dated in the period.
ExportsHoldPeriodOnly ==
    /\ last.op = "exportXeroJournals" =>
          \A g \in last.lines :
             LET InGroup(t) == /\ t.propertyId = g.propertyId
                               /\ t.category = g.category
                 group == Filter(InPeriodTransactions, InGroup)
             IN  Len(group) > 0 /\ g.amount = SumAmounts(group)
    /\ last.op = "exportMTDBridging" =>
          \A g \in last.lines :
             LET InGroup(t) == t.category = g.category
                 group == Filter(InPeriodTransactions, InGroup)
             IN  /\ Len(group) > 0
                 /\ g.amount = SumAmounts(group)
                 /\ g.count = Len(group)
    /\ last.op = "exportGeneric" =>
          \A i \in 1..Len(last.lines) :
             isDateInTaxYear(last.lines[i].date, taxYear)

====
